---- MODULE Spec2Model ----
(***************************************************************************)
(* A model of the AgilentDMM repository: the two instrument sessions       *)
(* (AgilentDMM.py, LakeshoreTempLog.py) over a serial transport, and the   *)
(* logging loop of DMMLogger.py.                                           *)
(*                                                                         *)
(* Text is a sequence of one-character strings.  A value handed over by    *)
(* the transport is tagged with its Python 3 representation (bytes or      *)
(* str), and a number is a normalised decimal m * 10^e.                    *)
(***************************************************************************)
EXTENDS Integers, Sequences, FiniteSets, TLC

(***************************************************************************)
(* Bounds of the model.                                                    *)
(***************************************************************************)
\* the largest number of comma-separated fields in a multimeter reply line
MaxFields == 3
\* the largest sample count a caller asks readVoltsMultiple for
MaxSamp == 3
\* the reads of the drain loop of close() that the call trace records
MaxDrain == 2
\* the number of records of a run of the logging loop (nRec)
MaxRec == 2

(***************************************************************************)
(* Text.                                                                   *)
(***************************************************************************)
CR == "\r"
LF == "\n"
DigitSeq == <<"0", "1", "2", "3", "4", "5", "6", "7", "8", "9">>
DigitSet == {DigitSeq[i] : i \in 1..10}
DigitVal(c) == (CHOOSE i \in 1..10 : DigitSeq[i] = c) - 1
\* the characters Python's str.strip() and float() treat as white space
WhiteSpace == {" ", "\t", LF, CR}

\* s[1:]
Drop1(s) == IF s = <<>> THEN <<>> ELSE Tail(s)
\* s[:-k] for k > 0
DropLast(s, k) == IF Len(s) <= k THEN <<>> ELSE SubSeq(s, 1, Len(s) - k)

\* the first index of s holding a character of set cs, 0 when there is none
IndexOf(s, cs) ==
    IF \E i \in 1..Len(s) : s[i] \in cs
    THEN CHOOSE i \in 1..Len(s) : s[i] \in cs /\ \A j \in 1..(i - 1) : s[j] \notin cs
    ELSE 0

RECURSIVE LStrip(_)
LStrip(s) == IF s # <<>> /\ Head(s) \in WhiteSpace THEN LStrip(Tail(s)) ELSE s
RECURSIVE RStrip(_)
RStrip(s) ==
    IF s # <<>> /\ s[Len(s)] \in WhiteSpace THEN RStrip(SubSeq(s, 1, Len(s) - 1)) ELSE s
Strip(s) == RStrip(LStrip(s))

\* a split that drops the empty fields, as str.split() without a separator does
RECURSIVE SplitDropEmpty(_)
SplitDropEmpty(s) ==
    LET i == IndexOf(s, {","})
        rest == IF i = 0 THEN <<>> ELSE SplitDropEmpty(SubSeq(s, i + 1, Len(s)))
        first == IF i = 0 THEN s ELSE SubSeq(s, 1, i - 1)
    IN IF first = <<>> THEN rest ELSE <<first>> \o rest
\* str.split(','): the fields between the commas, [''] for the empty text
RECURSIVE Split(_)
Split(s) ==
    LET i == IndexOf(s, {","})
    IN IF i = 0 THEN <<s>>
       ELSE <<SubSeq(s, 1, i - 1)>> \o Split(SubSeq(s, i + 1, Len(s)))

\* ','.join(fields)
RECURSIVE Join(_)
Join(fields) ==
    IF Len(fields) = 0 THEN <<>>
    ELSE IF Len(fields) = 1 THEN fields[1]
    ELSE fields[1] \o <<",">> \o Join(Tail(fields))

\* the number of comma-separated fields of a line, counted on its commas
NumFields(s) == Cardinality({i \in 1..Len(s) : s[i] = ","}) + 1

(***************************************************************************)
(* Numbers: m * 10^e, m with no trailing zero, 0 as 0 * 10^0.              *)
(***************************************************************************)
RECURSIVE Normalize(_, _)
Normalize(m, e) ==
    IF m = 0 THEN [m |-> 0, e |-> 0]
    ELSE IF m % 10 = 0 THEN Normalize(m \div 10, e + 1)
    ELSE [m |-> m, e |-> e]

RECURSIVE ToInt(_)
ToInt(s) == IF s = <<>> THEN 0 ELSE ToInt(SubSeq(s, 1, Len(s) - 1)) * 10 + DigitVal(s[Len(s)])

\* the digits without their trailing zeros
RECURSIVE DropZeros(_)
DropZeros(s) ==
    IF s # <<>> /\ s[Len(s)] = "0" THEN DropZeros(SubSeq(s, 1, Len(s) - 1)) ELSE s

AllDigits(s) == \A i \in 1..Len(s) : s[i] \in DigitSet

\* Python's float(text): white space stripped, [sign] digits [. digits]
\* [e|E [sign] digits] with a digit in the mantissa; ok = FALSE is ValueError.
\* (inf, nan and digit-group underscores need characters no reply of the
\* model holds.)
NotAFloat == [ok |-> FALSE, m |-> 0, e |-> 0]
float(text) ==
    LET s == Strip(text)
        neg == s # <<>> /\ Head(s) = "-"
        body == IF s # <<>> /\ Head(s) \in {"+", "-"} THEN Tail(s) ELSE s
        ie == IndexOf(body, {"e", "E"})
        mant == IF ie = 0 THEN body ELSE SubSeq(body, 1, ie - 1)
        expo == IF ie = 0 THEN <<>> ELSE SubSeq(body, ie + 1, Len(body))
        ip == IndexOf(mant, {"."})
        whole == IF ip = 0 THEN mant ELSE SubSeq(mant, 1, ip - 1)
        frac == IF ip = 0 THEN <<>> ELSE SubSeq(mant, ip + 1, Len(mant))
        eneg == expo # <<>> /\ Head(expo) = "-"
        edig == IF expo # <<>> /\ Head(expo) \in {"+", "-"} THEN Tail(expo) ELSE expo
        mantOk == AllDigits(whole) /\ AllDigits(frac) /\ Len(whole) + Len(frac) > 0
        expOk == ie = 0 \/ (edig # <<>> /\ AllDigits(edig))
        ev == IF eneg THEN 0 - ToInt(edig) ELSE ToInt(edig)
        sig == DropZeros(whole \o frac)
        mv == IF neg THEN 0 - ToInt(sig) ELSE ToInt(sig)
    IN IF mantOk /\ expOk
       THEN [ok |-> TRUE]
                @@ Normalize(mv, ev - Len(frac) + (Len(whole) + Len(frac) - Len(sig)))
       ELSE NotAFloat

Num(v) == [m |-> v.m, e |-> v.e]

\* the value Python 3 hands around: bytes from the transport, str after toStr
Bytes(c) == [kind |-> "bytes", chars |-> c]
Str(c) == [kind |-> "str", chars |-> c]

\* toStr under Python 3: bytes are decoded as ASCII (the line is 7 bits wide,
\* so every byte decodes), anything else is encoded to bytes
toStr(inStr) ==
    IF inStr.kind = "bytes" THEN Str(inStr.chars) ELSE Bytes(inStr.chars)

\* str(b) of a bytes value b: its repr b'...', CR and LF escaped
ReprChar(c) ==
    IF c = CR THEN <<"\\", "r">> ELSE IF c = LF THEN <<"\\", "n">> ELSE <<c>>
RECURSIVE ReprChars(_)
ReprChars(chars) ==
    IF chars = <<>> THEN <<>> ELSE ReprChar(Head(chars)) \o ReprChars(Tail(chars))
Repr(raw) == Str(<<"b", "'">> \o ReprChars(raw.chars) \o <<"'">>)

\* the -1 sendCmd returns on a null handle: a value len() raises TypeError on
MinusOne == [kind |-> "int", chars |-> <<>>]

\* a sendCmd that answers -1 when the read timed out empty
retStrOrMinusOne(raw) ==
    IF raw.chars = <<>> THEN MinusOne ELSE Str(DropLast(Repr(raw).chars, 2))
\* sendCmd's retStr of AgilentDMM: str(self.ser2.read(100))[:-2]
retStr(raw) == Str(DropLast(Repr(raw).chars, 2))

(***************************************************************************)
(* The multimeter's reply grammar.                                         *)
(***************************************************************************)
ERRVAL == -999
ErrReading == Normalize(ERRVAL, 0)
OVERLOAD == <<"9", ".", "9", "0", "0", "0", "0", "0", "0", "0", "E", "+", "3", "7">>

\* a comparison of the whole text with the overload text
IsOverloadExact(text) == text.kind = "str" /\ text.chars = OVERLOAD
\* temp_str[1:] == "9.90000000E+37": a str never equals bytes
IsOverload(text) == text.kind = "str" /\ Drop1(text.chars) = OVERLOAD

\* a reading that takes text that is no number as zero
parseReplyZero(temp_str) ==
    IF IsOverload(temp_str) THEN ErrReading
    ELSE LET v == float(temp_str.chars)
         IN IF v.ok THEN Num(v) ELSE Normalize(0, 0)
\* the reading readVolts makes of the decoded reply
parseReply(temp_str) ==
    IF IsOverload(temp_str) THEN ErrReading
    ELSE LET v == float(temp_str.chars)
         IN IF v.ok THEN Num(v) ELSE ErrReading

\* the reading readVoltsMultiple makes of one field of the reply
parseField(val) ==
    IF IsOverload(val) THEN ErrReading
    ELSE LET v == float(val.chars)
         IN IF v.ok THEN Num(v) ELSE ErrReading

\* a loop over the fields that appends nothing for a field that is no reading
parseLineSkipsBad(retValStr) ==
    LET good == SelectSeq(Split(retValStr.chars),
                          LAMBDA val : IsOverload(Str(val)) \/ float(val).ok)
    IN [i \in 1..Len(good) |-> parseField(Str(good[i]))]
\* retValStr.split(',') and the for loop over the fields
parseLine(retValStr) ==
    LET retValStrs == Split(retValStr.chars)
    IN [i \in 1..Len(retValStrs) |-> parseField(Str(retValStrs[i]))]

(***************************************************************************)
(* The temperature logger's replies.                                       *)
(***************************************************************************)
\* sendCmd's retStr of LakeshoreTempLog: read(100).decode('utf-8')[:-2]
decodeReply(raw) == Str(DropLast(raw.chars, 2))

\* float(temp) of every field of temp_str_3.split(','): the readings, or
\* ok = FALSE when a field raises ValueError
parseTemps(temp_str_3) ==
    LET readings == Split(temp_str_3.chars)
        vals == [i \in 1..Len(readings) |-> float(readings[i])]
    IN [ok |-> \A i \in 1..Len(vals) : vals[i].ok,
        results |-> [i \in 1..Len(vals) |-> Num(vals[i])]]

(***************************************************************************)
(* Inputs: the lines the instruments may send.                             *)
(***************************************************************************)
Terminators == {<<>>, <<CR, LF>>}
\* the character in front of the reading (the instrument sends the sign)
LeadChars == {"+", "-", " ", "x", "9"}
PlainReplies ==
    {<<>>, <<"x", "y">>, <<"1", "2", ".", "0">>, <<"-", "3", ".", "5">>,
     <<"+", "1", ".", "5", "E", "-", "0", "1">>, <<"-", "9", "9", "9">>, OVERLOAD}
SingleReplies ==
    {r \o t : r \in PlainReplies \cup {<<c>> \o OVERLOAD : c \in LeadChars},
              t \in Terminators}
BatchFields ==
    {<<>>, <<"1", "2", ".", "0">>, <<"-", "3", ".", "5">>, OVERLOAD, <<"+">> \o OVERLOAD}
BatchReplies ==
    LET lines == {Join(fs) : fs \in UNION {[1..k -> BatchFields] : k \in 1..MaxFields}}
    IN lines \cup {l \o <<CR, LF>> : l \in {x \in lines : NumFields(x) = 1}}
\* what the multimeter sends back on a setup command: nothing, an empty
\* line, or text
SetupReplies == {<<>>, <<CR, LF>>, <<"-", "1", "1", "3", ",", "E", "R", "R", CR, LF>>}
TempFields == {<<"+", "1", ".", "5">>, <<"x">>}
TempReplies ==
    {<<>>} \cup
    {Join(fs) \o t : fs \in UNION {[1..k -> TempFields] : k \in 1..2},
                     t \in {<<CR, LF>>, <<"0", "0", "0", CR, LF>>}}
Channels == {1, 2}

(***************************************************************************)
(* State.                                                                  *)
(***************************************************************************)
Sessions == {"dvm", "tlog"}
None == "None"

VARIABLES
    sess,       \* each session object: isConnected and ser2 (None or its handle)
    bound,      \* the caller's variable: unbound, bound, or lost (constructor raised)
    port,       \* each transport handle: unopened, open or released, and its releases
    requested,  \* the sample count the multimeter was last asked for (1, its
                \* default, until a SAMPLE:COUNT is written)
    draining,   \* the session whose close() is in its drain loop, or None
    ret,        \* the last call: what it returned or raised, and its transport trace
    pc,         \* runTest's position ("free": no run)
    test,       \* the Test object: nRec and nSamp
    nrec,       \* runTest's loop: the iterations completed
    rows,       \* the lines of the CSV file, in order (<<>>: none, or no file)
    exc         \* the exception runTest is raising ("": none)
vars == <<sess, bound, port, requested, draining, ret, pc, test, nrec, rows, exc>>
runVars == <<pc, test, nrec, rows, exc>>

\* one operation on the transport, as the call trace records it
W(cmd, arg) == [op |-> "write", cmd |-> cmd, arg |-> arg]
R(kind, size) == [op |-> kind, cmd |-> "", arg |-> size]

\* a call's record: n is its argument (sample count or channel), before the
\* sample count the multimeter had been asked for when the call began
Returned(op, s, value, line, n, io) ==
    [op |-> op, s |-> s, outcome |-> "returned", exc |-> "", value |-> value,
     line |-> line, n |-> n, before |-> requested, io |-> io]
Raised(op, s, e, n, io) ==
    [op |-> op, s |-> s, outcome |-> "raised", exc |-> e, value |-> <<>>,
     line |-> <<>>, n |-> n, before |-> requested, io |-> io]
Running(op, s, line, io) ==
    [op |-> op, s |-> s, outcome |-> "running", exc |-> "", value |-> <<>>,
     line |-> line, n |-> 0, before |-> requested, io |-> io]

\* the class attributes ser2 = None, isConnected = False
ClassDefaults == [isConnected |-> FALSE, ser2 |-> None]

\* the transport operations of a call, of which operation f raises
\* SerialException (f = 0: none does): the operations attempted
Attempted(ops, f) == IF f = 0 THEN ops ELSE SubSeq(ops, 1, f)
Completed(ops, f) == IF f = 0 THEN ops ELSE SubSeq(ops, 1, f - 1)

\* the sample count last written among the commands that reached the wire
RECURSIVE LastCount(_, _)
LastCount(ops, before) ==
    IF ops = <<>> THEN before
    ELSE LET x == ops[Len(ops)]
         IN IF x.op = "write" /\ x.cmd = "SAMPLE:COUNT" THEN x.arg
            ELSE LastCount(SubSeq(ops, 1, Len(ops) - 1), before)

(***************************************************************************)
(* The sessions' operations.  Each is one call; f names the transport      *)
(* operation of the call that raises SerialException (0: none), reply the  *)
(* line the transport hands back.  They leave pc, nrec and rows to the     *)
(* caller.                                                                 *)
(***************************************************************************)
\* sendCmdNoWait: the write, or nothing on a null handle
sendCmdNoWait(self, cmd, arg) ==
    IF self.ser2 # None THEN <<W(cmd, arg)>> ELSE <<>>

\* a sendCmd that does not read the reply
sendCmdNoRead(self, cmd, arg) == sendCmdNoWait(self, cmd, arg)
\* sendCmd: the write and the read of up to 100 bytes, or nothing (-1)
sendCmd(self, cmd, arg) ==
    IF self.ser2 # None THEN sendCmdNoWait(self, cmd, arg) \o <<R("read", 100)>>
    ELSE <<>>

\* the setup commands of the multimeter's constructor, in order
SetupCmds == <<"SYST:REM", "TRIG:SOUR IMM", "TRIG:DEL 0", "VOLT:NPLC 10", "CONF:range">>
RECURSIVE SetupOps(_, _)
SetupOps(self, cmds) ==
    IF cmds = <<>> THEN <<>>
    ELSE sendCmd(self, Head(cmds), 0) \o SetupOps(self, Tail(cmds))

\* the session after a successful and after a failed open
Opened(s) == [isConnected |-> TRUE, ser2 |-> s]
NotOpened == [isConnected |-> FALSE, ser2 |-> None]

\* the value sendCmd returns: retStr of the reply, or -1 on a null handle
sendCmdValue(self, raw) == IF self.ser2 # None THEN retStr(raw) ELSE MinusOne

\* the transport operations done when `if len(retVal) > 0` first raises
\* TypeError (0: it never does): the test follows the first four commands,
\* the fifth retVal is only printed
LenRaisesAfter(retVals) ==
    LET bad == {k \in 1..Len(retVals) - 1 : retVals[k].kind # "str"}
    IN IF bad = {} THEN 0 ELSE 2 * (CHOOSE k \in bad : \A j \in bad : k <= j)

\* AgilentDMM.__init__: replies[k] is what the read after setup command k
\* hands back
AgilentDMM_init(open, f, replies) ==
    LET s == "dvm"
        self == IF open THEN Opened(s) ELSE NotOpened
        ops == IF self.isConnected THEN SetupOps(self, SetupCmds) ELSE <<>>
        retVals == [k \in 1..Len(SetupCmds) |-> sendCmdValue(self, Bytes(replies[k]))]
        t == IF self.isConnected THEN LenRaisesAfter(retVals) ELSE 0
        serial == f # 0 /\ (t = 0 \/ f <= t)
    IN /\ bound[s] = "unbound"
       /\ draining = None
       /\ f \in 0..Len(ops)
       /\ sess' = [sess EXCEPT ![s] = self]
       /\ port' = IF open THEN [port EXCEPT ![s] = [state |-> "open", releases |-> 0]]
                  ELSE port
       /\ bound' = [bound EXCEPT ![s] = IF f = 0 /\ t = 0 THEN "bound" ELSE "lost"]
       /\ ret' = IF serial
                 THEN Raised("init", s, "SerialException", 0, Attempted(ops, f))
                 ELSE IF t # 0
                 THEN Raised("init", s, "TypeError", 0, SubSeq(ops, 1, t))
                 ELSE Returned("init", s, <<>>, replies, 0, ops)
       /\ UNCHANGED <<requested, draining>>

\* LakeshoreTempLog.__init__
LakeshoreTempLog_init(open) ==
    LET s == "tlog"
        self == IF open THEN Opened(s) ELSE NotOpened
    IN /\ bound[s] = "unbound"
       /\ draining = None
       /\ sess' = [sess EXCEPT ![s] = self]
       /\ port' = IF open THEN [port EXCEPT ![s] = [state |-> "open", releases |-> 0]]
                  ELSE port
       /\ bound' = [bound EXCEPT ![s] = "bound"]
       /\ ret' = Returned("init", s, <<>>, <<>>, 0, <<>>)
       /\ UNCHANGED <<requested, draining>>

\* an empty batch
DisconnectedBatchEmpty == <<>>
\* the value of readVoltsMultiple on a session that is not connected
DisconnectedBatch == <<ErrReading>>

\* AgilentDMM.readVolts
readVolts(s, f, reply) ==
    LET self == sess[s]
        ops == sendCmdNoWait(self, "MEAS:range", 0) \o <<R("readline", 0)>>
    IN /\ bound[s] = "bound"
       /\ draining = None
       /\ ret' = IF ~self.isConnected
                 THEN Returned("readVolts", s, ErrReading, <<>>, 0, <<>>)
                 ELSE IF self.ser2 = None
                 THEN Raised("readVolts", s, "AttributeError", 0, <<>>)
                 ELSE IF f # 0
                 THEN Raised("readVolts", s, "SerialException", 0, Attempted(ops, f))
                 ELSE Returned("readVolts", s, parseReply(toStr(Bytes(reply))),
                               reply, 0, ops)
       /\ UNCHANGED <<sess, bound, port, requested, draining>>

\* the commands without the sample count
BatchCmdsNoCount(self, nSamp) ==
    sendCmdNoWait(self, "CONF:range", 0) \o sendCmdNoWait(self, "READ?", 0)
\* the commands readVoltsMultiple writes before it reads the line
BatchCmds(self, nSamp) ==
    sendCmdNoWait(self, "CONF:range", 0)
        \o sendCmdNoWait(self, "SAMPLE:COUNT", nSamp)
        \o sendCmdNoWait(self, "READ?", 0)

\* AgilentDMM.readVoltsMultiple
readVoltsMultiple(s, nSamp, f, reply) ==
    LET self == sess[s]
        ops == BatchCmds(self, nSamp) \o <<R("readline", 0)>>
        live == self.isConnected /\ self.ser2 # None
    IN /\ bound[s] = "bound"
       /\ draining = None
       /\ ret' = IF ~self.isConnected
                 THEN Returned("readVoltsMultiple", s, DisconnectedBatch, <<>>, nSamp, <<>>)
                 ELSE IF self.ser2 = None
                 THEN Raised("readVoltsMultiple", s, "AttributeError", nSamp, <<>>)
                 ELSE IF f # 0
                 THEN Raised("readVoltsMultiple", s, "SerialException", nSamp,
                             Attempted(ops, f))
                 ELSE Returned("readVoltsMultiple", s, parseLine(toStr(Bytes(reply))),
                               reply, nSamp, ops)
       /\ requested' = IF live THEN LastCount(Completed(ops, f), requested)
                       ELSE requested
       /\ UNCHANGED <<sess, bound, port, draining>>

\* LakeshoreTempLog.readTempCh
readTempCh(s, chNo, f, reply) ==
    LET self == sess[s]
        ops == sendCmd(self, "CRDG?", chNo)
        v == float(decodeReply(Bytes(reply)).chars)
    IN /\ bound[s] = "bound"
       /\ draining = None
       /\ ret' = IF ~self.isConnected
                 THEN Returned("readTempCh", s, ErrReading, <<>>, chNo, <<>>)
                 ELSE IF self.ser2 = None
                 THEN Returned("readTempCh", s, Normalize(-1, 0), <<>>, chNo, <<>>)
                 ELSE IF f # 0
                 THEN Raised("readTempCh", s, "SerialException", chNo, Attempted(ops, f))
                 ELSE IF v.ok
                 THEN Returned("readTempCh", s, Num(v), reply, chNo, ops)
                 ELSE Raised("readTempCh", s, "ValueError", chNo, ops)
       /\ UNCHANGED <<sess, bound, port, requested, draining>>

\* LakeshoreTempLog.readTempAll
readTempAll(s, f, reply) ==
    LET self == sess[s]
        ops == sendCmd(self, "CRDG?", 0)
        temp_str_3 == Str(DropLast(decodeReply(Bytes(reply)).chars, 3))
        p == parseTemps(temp_str_3)
    IN /\ bound[s] = "bound"
       /\ draining = None
       /\ ret' = IF self.ser2 = None
                 THEN Raised("readTempAll", s, "TypeError", 0, <<>>)
                 ELSE IF f # 0
                 THEN Raised("readTempAll", s, "SerialException", 0, Attempted(ops, f))
                 ELSE IF p.ok
                 THEN Returned("readTempAll", s, p.results, reply, 0, ops)
                 ELSE Raised("readTempAll", s, "ValueError", 0, ops)
       /\ UNCHANGED <<sess, bound, port, requested, draining>>

\* a session marked disconnected that keeps its handle
ClosedKeepsHandle(self) == [isConnected |-> FALSE, ser2 |-> self.ser2]
\* the session close() leaves once the transport is released
Closed(self) == [isConnected |-> FALSE, ser2 |-> None]

\* a close() that drains whatever the session's state
closeGuardAlways(self) == TRUE
\* whether close() drains and releases, or does nothing
closeGuard(self) == self.isConnected

\* the bytes an instrument may still be sending when close() drains
DrainBytes == {"x", "y"}
\* what a read(1) of the drain loop does: it raises, times out empty, or
\* finds a byte
Gots == {"raise", "empty"} \cup DrainBytes
\* what self.ser2.read(1) hands back: a byte, or nothing after the timeout
ReadOne(got) == IF got \in DrainBytes THEN Bytes(<<got>>) ELSE Bytes(<<>>)

\* a drain loop that stops after any read
DrainStops(retVal) == FALSE
\* while(retVal != ''): the drain loop reads again
DrainGoesOn(retVal) == retVal # Str(<<>>)

\* close(), of both session classes: one step per read(1) of the drain loop.
\* got is what the read does: it raises, hands back a byte, or times out empty
\* (and the transport is then released).  The trace keeps the first MaxDrain
\* reads that found a byte, and the call's line is what the last read handed
\* back.
close(s, got) ==
    LET self == sess[s]
        first == draining = None
        io == IF first THEN <<>> ELSE ret.io
        rd == R("read", 1)
        retVal == toStr(ReadOne(got))
    IN /\ bound[s] = "bound"
       /\ draining \in {None, s}
       /\ IF first /\ ~closeGuard(self)
          THEN /\ got = "empty"
               /\ ret' = Returned("close", s, <<>>, <<>>, 0, <<>>)
               /\ UNCHANGED <<sess, port, draining>>
          ELSE IF self.ser2 = None
          THEN /\ got = "raise"
               /\ ret' = Raised("close", s, "AttributeError", 0, io)
               /\ draining' = None
               /\ UNCHANGED <<sess, port>>
          ELSE CASE got = "raise" ->
                      /\ ret' = Raised("close", s, "SerialException", 0, Append(io, rd))
                      /\ draining' = None
                      /\ UNCHANGED <<sess, port>>
                 [] got # "raise" /\ DrainGoesOn(retVal) ->
                      /\ ret' = Running("close", s, retVal.chars,
                                         IF Len(io) < MaxDrain THEN Append(io, rd) ELSE io)
                      /\ draining' = s
                      /\ UNCHANGED <<sess, port>>
                 [] got # "raise" /\ ~DrainGoesOn(retVal) ->
                      /\ ret' = Returned("close", s, <<>>, retVal.chars, 0,
                                         io \o <<rd, R("close", 0)>>)
                      /\ draining' = None
                      /\ port' = [port EXCEPT ![self.ser2] =
                                     [state |-> "released", releases |-> @.releases + 1]]
                      /\ sess' = [sess EXCEPT ![s] = Closed(self)]
       /\ UNCHANGED <<bound, requested>>

(***************************************************************************)
(* Spec: a caller that constructs one session and then calls its           *)
(* operations in any order.                                                *)
(***************************************************************************)
NoCall ==
    [op |-> "none", s |-> None, outcome |-> "returned", exc |-> "", value |-> <<>>,
     line |-> <<>>, n |-> 0, before |-> 0, io |-> <<>>]

\* the state before any constructor has run
Fresh ==
    /\ sess = [s \in Sessions |-> ClassDefaults]
    /\ bound = [s \in Sessions |-> "unbound"]
    /\ port = [s \in Sessions |-> [state |-> "unopened", releases |-> 0]]
    /\ requested = 1
    /\ draining = None
    /\ ret = NoCall
    /\ nrec = 0
    /\ exc = ""

Init ==
    /\ Fresh
    /\ pc = "free"
    /\ test = [nRec |-> 0, nSamp |-> 0]
    /\ rows = <<>>

\* the caller works with one session: the other class is never constructed
Alone(s) == \A o \in Sessions \ {s} : bound[o] = "unbound"
\* a reply is read only when no transport operation raises
RepliesFor(f, replies) == IF f = 0 THEN replies ELSE {<<>>}
\* the replies to the setup commands of a constructor whose open succeeded
SetupRepliesFor(open, f) ==
    IF open /\ f = 0 THEN [1..Len(SetupCmds) -> SetupReplies]
    ELSE {[k \in 1..Len(SetupCmds) |-> <<>>]}
\* the caller is between two calls, the last result taken
Idle == pc = "free" /\ ret.op = "none"

CallInitDvm ==
    /\ Idle /\ Alone("dvm")
    /\ \E open \in BOOLEAN, f \in 0..10 : \E replies \in SetupRepliesFor(open, f) :
           AgilentDMM_init(open, f, replies)
    /\ UNCHANGED runVars

CallInitTempLog ==
    /\ Idle /\ Alone("tlog")
    /\ \E open \in BOOLEAN : LakeshoreTempLog_init(open)
    /\ UNCHANGED runVars

CallReadVolts ==
    /\ Idle
    /\ \E f \in 0..2 : \E reply \in RepliesFor(f, SingleReplies) :
           readVolts("dvm", f, reply)
    /\ UNCHANGED runVars

CallReadVoltsMultiple ==
    /\ Idle
    /\ \E nSamp \in 1..MaxSamp, f \in 0..4 : \E reply \in RepliesFor(f, BatchReplies) :
           readVoltsMultiple("dvm", nSamp, f, reply)
    /\ UNCHANGED runVars

CallReadTempCh ==
    /\ Idle
    /\ \E chNo \in Channels, f \in 0..2 : \E reply \in RepliesFor(f, TempReplies) :
           readTempCh("tlog", chNo, f, reply)
    /\ UNCHANGED runVars

CallReadTempAll ==
    /\ Idle
    /\ \E f \in 0..2 : \E reply \in RepliesFor(f, TempReplies) :
           readTempAll("tlog", f, reply)
    /\ UNCHANGED runVars

\* close(): the call, and each further read of its drain loop
CallClose ==
    /\ pc = "free"
    /\ \E s \in Sessions :
           /\ IF draining = None THEN ret.op = "none" ELSE draining = s
           /\ \E got \in Gots : close(s, got)
    /\ UNCHANGED runVars

\* the caller takes the result of the call (the self-tests print it)
TakeResult ==
    /\ pc = "free"
    /\ ret.op # "none"
    /\ draining = None
    /\ ret' = NoCall
    /\ UNCHANGED <<sess, bound, port, requested, draining>>
    /\ UNCHANGED runVars

Next ==
    \/ CallInitDvm
    \/ CallInitTempLog
    \/ CallReadVolts
    \/ CallReadVoltsMultiple
    \/ CallReadTempCh
    \/ CallReadTempAll
    \/ CallClose
    \/ TakeResult

Spec == Init /\ [][Next]_vars

\* a read of the drain loop of a close() that is under way
DrainStep == draining # None /\ CallClose

\* the caller's program keeps running: a close() that is in its drain loop
\* does its next read
LiveSpec == Init /\ [][Next]_vars /\ WF_vars(DrainStep)

(***************************************************************************)
(* RunSpec: Test.runTest of DMMLogger.py, one step per statement that      *)
(* touches a session or the file.  An exception in the try block goes to   *)
(* the finally block and leaves runTest after it.                          *)
(***************************************************************************)
\* the lines of the file: the header line and a data row
HeaderLine == "time, timestamp, DVM1 Mean (V), DMM1 STD (V)"
DataRow == "row"
\* what fname holds when runTest begins: nothing, or an earlier run's log
OldFiles == {<<>>, <<HeaderLine, DataRow>>}

RunInit ==
    /\ Fresh
    /\ pc = "open_file"
    /\ test \in [nRec : 0..MaxRec, nSamp : 1..MaxSamp]
    /\ rows \in OldFiles

\* an open that keeps what the file holds
OpenKeeps(content) == content
\* open(fname, 'w'): the file emptied
OpenTruncates(content) == <<>>

\* for nrec in range(0, self.nRec): the body again, or the finally block
LoopHead(i) == IF i < test.nRec THEN "readv" ELSE "finally_dvm"

\* a try block that goes on after a statement that raised
AfterSwallows(r, next) == next
\* where a statement of the try block goes on: the finally block when it raised
After(r, next) == IF r.outcome = "raised" THEN "finally_dvm" ELSE next

\* fp = open(fname, 'w'); fp.write(header); fp.close(), before the try block:
\* IOError from the open leaves the file, from the write leaves it emptied
RunOpenFile ==
    /\ pc = "open_file"
    /\ \E fails \in {"none", "open", "write"} :
           /\ rows' = CASE fails = "none" -> Append(OpenTruncates(rows), HeaderLine)
                        [] fails = "open" -> rows
                        [] fails = "write" -> OpenTruncates(rows)
           /\ exc' = IF fails = "none" THEN "" ELSE "IOError"
           /\ pc' = IF fails = "none" THEN "init_dvm" ELSE "done"
    /\ UNCHANGED <<sess, bound, port, requested, draining, ret, test, nrec>>

\* dvm1 = AgilentDMM.AgilentDMM(self.DVM1_PORT, debug=self.debug)
RunInitDvm ==
    /\ pc = "init_dvm"
    /\ \E open \in BOOLEAN, f \in 0..10 : \E replies \in SetupRepliesFor(open, f) :
           AgilentDMM_init(open, f, replies)
    /\ pc' = After(ret', "init_tlog")
    /\ exc' = ret'.exc
    /\ UNCHANGED <<test, nrec, rows>>

\* tempLog = LakeshoreTempLog.LakeshoreTempLog(self.TEMPLOG_PORT)
RunInitTempLog ==
    /\ pc = "init_tlog"
    /\ \E open \in BOOLEAN : LakeshoreTempLog_init(open)
    /\ pc' = After(ret', LoopHead(0))
    /\ exc' = ret'.exc
    /\ UNCHANGED <<test, nrec, rows>>

\* v1, t = dvm1.readVoltsMultiple(self.nSamp), and the mean and std of v1
RunReadVolts ==
    /\ pc = "readv"
    /\ \E f \in 0..4 : \E reply \in RepliesFor(f, BatchReplies) :
           readVoltsMultiple("dvm", test.nSamp, f, reply)
    /\ pc' = After(ret', "readt")
    /\ exc' = ret'.exc
    /\ UNCHANGED <<test, nrec, rows>>

\* tempsArr = tempLog.readTempAll()
RunReadTemps ==
    /\ pc = "readt"
    /\ \E f \in 0..2 : \E reply \in RepliesFor(f, TempReplies) :
           readTempAll("tlog", f, reply)
    /\ pc' = After(ret', "write")
    /\ exc' = ret'.exc
    /\ UNCHANGED <<test, nrec, rows>>

\* self.writeDataToFile(...): one row appended, or IOError from open or write
RunWriteRow ==
    /\ pc = "write"
    /\ \E ok \in BOOLEAN :
           /\ rows' = IF ok THEN Append(rows, DataRow) ELSE rows
           /\ nrec' = IF ok THEN nrec + 1 ELSE nrec
           /\ exc' = IF ok THEN "" ELSE "IOError"
           /\ pc' = IF ok THEN LoopHead(nrec + 1) ELSE "finally_dvm"
    /\ UNCHANGED <<sess, bound, port, requested, draining, ret, test>>

\* a close() of the finally block on local variable s: UnboundLocalError when
\* the constructor never returned; runTest leaves when the close raises
RunClose(s, here, next) ==
    /\ pc = here
    /\ IF bound[s] # "bound"
       THEN /\ ret' = Raised("close", s, "UnboundLocalError", 0, <<>>)
            /\ UNCHANGED <<sess, bound, port, requested, draining>>
       ELSE \E got \in Gots : close(s, got)
    /\ pc' = IF ret'.outcome = "running" THEN here
             ELSE IF ret'.outcome = "raised" THEN "done" ELSE next
    /\ exc' = IF ret'.outcome = "raised" THEN ret'.exc ELSE exc
    /\ UNCHANGED <<test, nrec, rows>>

\* dvm1.close()
RunCloseDvm == RunClose("dvm", "finally_dvm", "finally_tlog")
\* tempLog.close()
RunCloseTempLog == RunClose("tlog", "finally_tlog", "done")

RunNext ==
    \/ RunOpenFile
    \/ RunInitDvm
    \/ RunInitTempLog
    \/ RunReadVolts
    \/ RunReadTemps
    \/ RunWriteRow
    \/ RunCloseDvm
    \/ RunCloseTempLog

RunSpec == RunInit /\ [][RunNext]_vars

(***************************************************************************)
(* The claims.                                                             *)
(***************************************************************************)
Connected(s) == sess[s].isConnected
Range(seq) == {seq[i] : i \in 1..Len(seq)}
Batch == "readVoltsMultiple"

\* C1: on a Disconnected multimeter session readVolts returns ERRVAL and
\* readVoltsMultiple(n) returns [ERRVAL] for every n, and neither writes to
\* or reads from the transport.
C1_DisconnectedReads ==
    /\ (ret.op = "readVolts" /\ ~Connected(ret.s)) =>
           ret.outcome = "returned" /\ ret.value = Normalize(ERRVAL, 0) /\ ret.io = <<>>
    /\ (ret.op = Batch /\ ~Connected(ret.s)) =>
           ret.outcome = "returned" /\ ret.value = <<Normalize(ERRVAL, 0)>> /\ ret.io = <<>>
\* readVoltsMultiple(3) has returned on a session that close() had released
C1_Witness ==
    /\ ret.op = Batch /\ ret.n = 3 /\ ret.outcome = "returned"
    /\ ~Connected("dvm") /\ port["dvm"].state = "released"

\* C2: on a Disconnected temperature-logger session every read operation
\* (readTempCh of any channel, readTempAll) returns the sentinel at once,
\* raising nothing and leaving the transport alone.
C2_DisconnectedTempReads ==
    (ret.op \in {"readTempCh", "readTempAll"} /\ ~Connected(ret.s)) =>
        /\ ret.outcome = "returned"
        /\ ret.io = <<>>
        /\ ret.op = "readTempCh" => ret.value = Normalize(ERRVAL, 0)

\* C3: however the logging loop's body exits (its iterations completed, or
\* one of them raised), close() is called on both sessions before runTest
\* exits, so both sessions end Disconnected.  The body has been entered when
\* both constructors returned and nRec is not 0.
C3_LoopExitClosesBoth ==
    (pc = "done" /\ test.nRec > 0 /\ \A s \in Sessions : bound[s] = "bound") =>
        \A s \in Sessions : ~Connected(s) /\ port[s].state # "open"

\* C4: every transport handle that was opened is released exactly once: never
\* twice, and by the time the run ends on every error path.
C4_NoHandleLeak ==
    \A s \in Sessions :
        /\ port[s].releases <= 1
        /\ pc = "done" => port[s].state # "open"

\* C5: whenever a caller can observe a session it is either connected with a
\* non-null, open handle or disconnected with a null handle.
C5_ConnectedOrDisconnected ==
    \A s \in Sessions :
        bound[s] = "bound" =>
            \/ Connected(s) /\ sess[s].ser2 # None /\ port[sess[s].ser2].state = "open"
            \/ ~Connected(s) /\ sess[s].ser2 = None
\* close() has returned on a session whose transport it released
C5_Witness ==
    /\ ret.op = "close" /\ ret.outcome = "returned" /\ ret.io # <<>>
    /\ port[ret.s].state = "released" /\ ~Connected(ret.s)

\* C6: a close() that returns leaves the session Disconnected with a null
\* handle, and a close() on a Disconnected session (a second close, or one
\* after a failed open) does not raise, reads nothing, releases nothing and
\* leaves the session as it was, for both session classes.
C6_CloseIdempotent ==
    [][\A s \in Sessions :
          /\ (ret'.op = "close" /\ ret'.s = s /\ ret'.outcome = "returned") =>
                 sess'[s] = [isConnected |-> FALSE, ser2 |-> None]
          /\ (ret.op = "none" /\ ret'.op = "close" /\ ret'.s = s /\ ~Connected(s)) =>
                 /\ ret'.outcome = "returned"
                 /\ ret'.io = <<>>
                 /\ port' = port
                 /\ sess'[s] = [isConnected |-> FALSE, ser2 |-> None]]_vars
\* a close() that did nothing has returned on a session released before
C6_Witness ==
    /\ ret.op = "close" /\ ret.outcome = "returned" /\ ret.io = <<>>
    /\ port[ret.s].state = "released" /\ port[ret.s].releases = 1

\* C7: for a reply of one leading character followed by the overload text,
\* readVolts on a Connected session returns ERRVAL.
C7_OverloadIsSentinel ==
    (/\ ret.op = "readVolts" /\ ret.outcome = "returned" /\ Connected(ret.s)
     /\ Len(ret.line) = Len(OVERLOAD) + 1
     /\ Tail(ret.line) = OVERLOAD) =>
        ret.value = Normalize(ERRVAL, 0)
\* readVolts has read the overload reply with the sign in front
C7_Witness ==
    /\ ret.op = "readVolts" /\ ret.outcome = "returned" /\ Connected(ret.s)
    /\ ret.line = <<"+">> \o OVERLOAD

\* field k of a line, found from the positions of its commas
CommaPos(line, k) ==
    LET commas == {i \in 1..Len(line) : line[i] = ","}
    IN IF k = 0 THEN 0
       ELSE IF k > Cardinality(commas) THEN Len(line) + 1
       ELSE CHOOSE i \in commas : Cardinality({j \in commas : j <= i}) = k
FieldOf(line, k) == SubSeq(line, CommaPos(line, k - 1) + 1, CommaPos(line, k) - 1)
FloatOrSentinel(field) ==
    IF float(field).ok THEN Num(float(field)) ELSE Normalize(ERRVAL, 0)
Twelve == [m |-> 12, e |-> 0]
MinusThreeAndAHalf == [m |-> -35, e |-> -1]
Example == <<"1", "2", ".", "0", ",", "-", "3", ".", "5", ",">>
BatchReturned == ret.op = Batch /\ ret.outcome = "returned" /\ Connected(ret.s)

\* C8: readVoltsMultiple maps each comma-separated field on its
\* own: a field that is the overload text gives ERRVAL, a field that is no
\* float gives ERRVAL, any other field its float value, in reply order; the
\* reply "12.0,-3.5,9.90000000E+37" with sampleCount 3 gives
\* [12.0, -3.5, ERRVAL].
C8_FieldsMappedAsClaimed ==
    BatchReturned =>
        /\ Len(ret.value) = NumFields(ret.line)
        /\ \A k \in 1..Len(ret.value) :
               ret.value[k] = IF FieldOf(ret.line, k) = OVERLOAD
                              THEN Normalize(ERRVAL, 0)
                              ELSE FloatOrSentinel(FieldOf(ret.line, k))
        /\ (ret.line = Example \o OVERLOAD /\ ret.n = 3) =>
               ret.value = <<Twelve, MinusThreeAndAHalf, Normalize(ERRVAL, 0)>>

\* C9: for every reply line and every sampleCount, readVoltsMultiple on a
\* Connected session raises nothing of its own (only the transport's
\* SerialException passes through it) and returns as many readings as the
\* line has comma-separated fields, also when that is fewer than sampleCount.
C9_LengthIsFieldCount ==
    (ret.op = Batch /\ Connected(ret.s)) =>
        /\ ret.outcome = "raised" =>
               ret.exc = "SerialException" /\ ret.io[Len(ret.io)].op \in {"write", "readline"}
        /\ ret.outcome = "returned" => Len(ret.value) = NumFields(ret.line)
\* readVoltsMultiple(3) has returned two readings for a line of two fields
C9_Witness ==
    BatchReturned /\ ret.n = 3 /\ NumFields(ret.line) = 2 /\ Len(ret.value) = 2

\* C10: whatever sample count an earlier call set, readVoltsMultiple(n)
\* returns exactly n readings when the line it reads has the number of
\* samples the multimeter was last asked for.
C10_CountFollowsRequest ==
    (BatchReturned /\ NumFields(ret.line) = requested) => Len(ret.value) = ret.n
\* readVoltsMultiple(2) has returned 2 readings after a call had asked for 3
C10_Witness ==
    BatchReturned /\ ret.before = 3 /\ ret.n = 2 /\ Len(ret.value) = 2

\* the file of a run that has appended n rows: the header and n data rows
FileOf(n) == <<HeaderLine>> \o [i \in 1..n |-> DataRow]

\* C11: a run of runTest that completes with nRec = N leaves the CSV file
\* holding one header row followed by N data rows, whatever the file held
\* before; inside the loop the file holds the header and one row for each
\* iteration completed.
C11_HeaderAndRows ==
    /\ pc \in {"readv", "readt", "write"} => rows = FileOf(nrec)
    /\ (pc = "done" /\ exc = "") => rows = FileOf(test.nRec)
\* a run of two records has completed
C11_Witness ==
    pc = "done" /\ exc = "" /\ test.nRec = 2 /\ nrec = 2 /\ Len(rows) = 3

\* the commands a call wrote to the transport, in order
Written(io) ==
    LET w == SelectSeq(io, LAMBDA x : x.op = "write")
    IN [i \in 1..Len(w) |-> w[i].cmd]
InitOpened == ret.op = "init" /\ ret.s = "dvm" /\ port["dvm"].state # "unopened"

\* C12: when the multimeter's transport opens, no reply content (empty,
\* non-empty or unexpected) aborts the constructor or skips a later setup
\* command: only the transport's own SerialException makes it raise, and
\* when it returns all five setup commands were written and the session is
\* Connected.
C12_SetupIgnoresReplies ==
    InitOpened =>
        /\ ret.outcome = "raised" => ret.exc = "SerialException"
        /\ ret.outcome = "returned" =>
               /\ Written(ret.io) = SetupCmds
               /\ Connected("dvm") /\ sess["dvm"].ser2 # None
               /\ bound["dvm"] = "bound"
\* the constructor has returned after an error text, a timeout and an empty
\* line as replies
C12_Witness ==
    /\ InitOpened /\ ret.outcome = "returned"
    /\ ret.line[1] \notin {<<>>, <<CR, LF>>}
    /\ ret.line[2] = <<>>
    /\ ret.line[3] = <<CR, LF>>

\* a line as readline delivers an overload: one framing character, the
\* overload text, and the line terminator or nothing
OverloadLines == {<<c>> \o OVERLOAD \o t : c \in LeadChars, t \in Terminators}

\* C13: every overload reply read by readVolts yields ERRVAL, also when the
\* line carries its trailing line terminator: the overload is never returned
\* as the measured voltage 9.9E+37.
C13_OverloadNeverMeasured ==
    (/\ ret.op = "readVolts" /\ ret.outcome = "returned" /\ Connected(ret.s)
     /\ ret.line \in OverloadLines) =>
        ret.value = Normalize(ERRVAL, 0)

\* C14: a transport-open failure of either instrument is not fatal to the
\* logging loop: a read of the session whose port failed to open raises
\* nothing, and a run in which both ports failed to open (so that no
\* transport can raise) and the file can be written executes all nRec
\* iterations and leaves without an exception.
C14_OpenFailureNotFatal ==
    /\ (/\ pc \in {"readt", "write", "finally_dvm"}
        /\ ret.op \in {Batch, "readTempAll"}
        /\ port[ret.s].state = "unopened") => ret.outcome = "returned"
    /\ (/\ pc = "done" /\ exc # "IOError"
        /\ \A s \in Sessions : bound[s] = "bound" /\ port[s].state = "unopened") =>
           nrec = test.nRec /\ exc = ""

\* C15: close() on a Connected session releases the transport only after
\* the drain has finished: it reads one byte at a time, the release comes
\* after a read that found nothing and is the last the call does with the
\* transport, the session is then Disconnected with a null handle, and no
\* later call reads from the released transport.
C15_ReleaseAfterDrain ==
    \A s \in Sessions :
        /\ (draining = s \/ (ret.op = "close" /\ ret.s = s /\ ret.outcome = "raised")) =>
               port[s].state # "released" /\ R("close", 0) \notin Range(ret.io)
        /\ (draining = s) => ret.line # <<>>
        /\ (ret.op = "close" /\ ret.s = s /\ ret.io # <<>>) =>
               \A i \in 1..Len(ret.io) :
                   \/ ret.io[i] = R("read", 1)
                   \/ /\ ret.io[i] = R("close", 0)
                      /\ i = Len(ret.io) /\ i > 1
                      /\ ret.outcome = "returned" /\ ret.line = <<>>
        /\ (port[s].state = "released") =>
               /\ ~Connected(s) /\ sess[s].ser2 = None
               /\ (ret.s = s /\ ret.op # "close") => ret.io = <<>>
\* close() has returned after a drain that read two bytes before the empty
\* read
C15_Witness ==
    /\ ret.op = "close" /\ ret.outcome = "returned" /\ Len(ret.io) = 4
    /\ ret.line = <<>> /\ port[ret.s].state = "released"

\* C16: close() on a Connected session always terminates: a close() that is
\* in its drain loop eventually leaves it, whatever the instrument does,
\* also when the instrument keeps sending bytes.
C16_CloseTerminates ==
    \A s \in Sessions : (draining = s) ~> (draining = None)

\* the setup dialogue as claimed: each command written, then one read
ClaimedSetup == <<"SYST:REM", "TRIG:SOUR IMM", "TRIG:DEL 0", "VOLT:NPLC 10", "CONF:range">>
ClaimedDialogue ==
    [i \in 1..10 |-> IF i % 2 = 1 THEN W(ClaimedSetup[(i + 1) \div 2], 0)
                     ELSE R("read", 100)]
MeasurementCmds == {"MEAS:range", "SAMPLE:COUNT", "READ?"}

\* C17: on a successful open the multimeter's constructor writes the five
\* setup commands SYST:REM, TRIG:SOUR IMM, TRIG:DEL 0, VOLT:NPLC 10,
\* CONF:<range> in this order, each followed by one reply read before the
\* next is written (a constructor that raises has done a prefix of that); a
\* measurement command is written only on a session whose constructor
\* returned; the temperature logger's constructor writes nothing.
C17_SetupDialogue ==
    /\ (InitOpened /\ ret.outcome = "returned") => ret.io = ClaimedDialogue
    /\ (InitOpened /\ ret.outcome = "raised") =>
           /\ Len(ret.io) <= Len(ClaimedDialogue)
           /\ ret.io = SubSeq(ClaimedDialogue, 1, Len(ret.io))
    /\ (ret.op = "init" /\ ret.s = "tlog") => ret.io = <<>>
    /\ (\E i \in 1..Len(ret.io) : ret.io[i].cmd \in MeasurementCmds) =>
           ret.op # "init" /\ bound[ret.s] = "bound"
\* the constructor has returned after the whole dialogue: ten transport
\* operations, the last of them the read after CONF
C17_Witness ==
    /\ InitOpened /\ ret.outcome = "returned" /\ Len(ret.io) = 10
    /\ ret.io[9].cmd = "CONF:range" /\ ret.io[10].op = "read"

\* C18: Disconnected is absorbing: once a constructed session is
\* Disconnected (its open failed, or close() released it), no call of
\* readVolts, readVoltsMultiple, readTempCh, readTempAll or close makes it
\* Connected again or gives it a non-null handle, and its transport is
\* never opened again.
C18_DisconnectedAbsorbing ==
    [][\A s \in Sessions :
          (bound[s] = "bound" /\ ~Connected(s)) =>
              /\ ~sess'[s].isConnected
              /\ sess'[s].ser2 = None
              /\ port'[s].state = port[s].state]_vars
\* readTempCh has been called on a session that close() had released
C18_Witness ==
    /\ ret.op = "readTempCh" /\ ret.outcome = "returned"
    /\ ~Connected("tlog") /\ port["tlog"].state = "released"

\* a line that is neither the overload reply nor a float
Unparseable(line) == Drop1(line) # OVERLOAD /\ ~float(line).ok

\* C19: for every reply line that is neither the overload reply nor a float
\* (the empty line of a read timeout included) readVolts on a Connected
\* session returns ERRVAL and leaves the session Connected with its handle
\* open; readVolts raises nothing of its own, and every readVolts or
\* readVoltsMultiple on a Connected session writes its command first and,
\* when it returns, has read a line.
C19_BadReplyIsSentinel ==
    /\ (/\ ret.op = "readVolts" /\ ret.outcome = "returned" /\ ret.io # <<>>
        /\ Unparseable(ret.line)) =>
           /\ ret.value = Normalize(ERRVAL, 0)
           /\ Connected(ret.s) /\ sess[ret.s].ser2 = ret.s
           /\ port[ret.s].state = "open"
    /\ (ret.op = "readVolts" /\ ret.outcome = "raised" /\ Connected(ret.s)) =>
           ret.exc = "SerialException"
    /\ (ret.op \in {"readVolts", Batch} /\ Connected(ret.s)) =>
           /\ ret.io # <<>> /\ ret.io[1].op = "write"
           /\ ret.outcome = "returned" => ret.io[Len(ret.io)].op = "readline"
\* readVolts has returned ERRVAL for the empty line of a read timeout
C19_Witness ==
    /\ ret.op = "readVolts" /\ ret.outcome = "returned" /\ ret.io # <<>>
    /\ ret.line = <<>> /\ ret.value = Normalize(ERRVAL, 0) /\ Connected(ret.s)

\* C20: readVoltsMultiple never returns an empty sequence: whatever the
\* session's state and whatever line it reads (the empty line of a read
\* timeout included), the sequence it returns has at least one element, so
\* the logging loop's mean is never taken over zero readings.
C20_BatchNeverEmpty ==
    (ret.op = Batch /\ ret.outcome = "returned") => Len(ret.value) >= 1
\* readVoltsMultiple has returned one reading for the empty line of a read
\* timeout on a Connected session
C20_Witness ==
    BatchReturned /\ ret.io # <<>> /\ ret.line = <<>> /\ Len(ret.value) = 1

\* the run is past the header: the file holds this run's lines only
PastHeader == pc = "init_dvm" \/ bound["dvm"] # "unbound"
\* the run has left the loop for the finally block
Leaving == pc \in {"finally_dvm", "finally_tlog", "done"}

\* C21: at every point of a run the data rows of the CSV file are as many
\* as the iterations completed; the row of an iteration is appended only
\* after its readVoltsMultiple and its readTempAll have both returned, and
\* when either raises no row is written for that iteration and no later
\* iteration runs.
C21_RowsAreIterations ==
    /\ [](/\ PastHeader => rows = FileOf(nrec)
          /\ pc = "readt" => ret.op = Batch /\ ret.outcome = "returned"
          /\ pc = "write" => ret.op = "readTempAll" /\ ret.outcome = "returned")
    /\ [][/\ (PastHeader /\ rows' # rows) =>
                 /\ pc = "write" /\ ret.op = "readTempAll" /\ ret.outcome = "returned"
                 /\ rows' = Append(rows, DataRow) /\ nrec' = nrec + 1
          /\ (pc \in {"readv", "readt"} /\ ret'.outcome = "raised") =>
                 pc' = "finally_dvm" /\ rows' = rows /\ nrec' = nrec
          /\ Leaving => pc' \in {"finally_dvm", "finally_tlog", "done"}
                        /\ rows' = rows /\ nrec' = nrec]_vars
\* the second iteration's readTempAll has raised after one row was written:
\* the file still holds that one row
C21_Witness ==
    /\ pc = "finally_dvm" /\ ret.op = "readTempAll" /\ ret.outcome = "raised"
    /\ test.nRec = 2 /\ nrec = 1 /\ rows = FileOf(1)

\* the positions of a call's trace at which it wrote to or read from the
\* transport
TransportOps(io) == {i \in 1..Len(io) : io[i].op \in {"write", "read", "readline"}}

\* C22: no operation writes to or reads from a transport handle after the
\* handle has been released: a call that touches the transport finds the
\* handle open and not yet released and the session Connected (the
\* constructor has just opened it), and within the call every write, read
\* and readline comes before the release.
C22_NoUseAfterRelease ==
    [][(ret' # ret /\ TransportOps(ret'.io) # {}) =>
          /\ port[ret'.s].state # "released"
          /\ IF ret'.op = "init"
             THEN port'[ret'.s].state = "open" /\ sess'[ret'.s].isConnected
             ELSE /\ port[ret'.s].state = "open"
                  /\ Connected(ret'.s) /\ sess[ret'.s].ser2 = ret'.s
          /\ \A i \in TransportOps(ret'.io) :
                 \A j \in 1..i : ret'.io[j].op # "close"]_vars
\* readTempAll, which does not test isConnected, has been called on a
\* session that close() had released, and touched no transport
C22_Witness ==
    /\ ret.op = "readTempAll" /\ ret.outcome = "raised" /\ ret.io = <<>>
    /\ port["tlog"].state = "released" /\ port["tlog"].releases = 1

====
